---- MODULE Spec2Model ----
(***************************************************************************)
(* D-V0 resonance pipeline of PWGHF/D2H/TableProducer:                     *)
(*   dataCreatorDV0Reduced.cxx      (reduction stage)                      *)
(*   candidateCreatorDV0Reduced.cxx (candidate-creation stage)             *)
(* Masses are integers in units of 10^-6 GeV/c^2; eta, radius, cosine of   *)
(* pointing angle and DCAs are integers in units of 10^-2.                 *)
(* Momentum and vertex columns are copied through unchanged by the code    *)
(* and are not part of the rows modelled here.                             *)
(***************************************************************************)
EXTENDS Integers, Sequences, FiniteSets, TLC

VARIABLES
  pc,                 \* position of the workflow
  doprocess,          \* enabled process switch of the data creator
  nColl,              \* collisions.tableSize() of the processed data frame
  nSeen,              \* collisions already handed to runDataCreation
  nDSeen,             \* rows of the D table that belong to those collisions
  nV0Seen,            \* rows of the V0 table that belong to those collisions
  collision,          \* the collision handled last, with its D and V0 slices
  deltaMassK0s,       \* Configurable deltaMassK0s
  runNumber,          \* cached run number
  bField,             \* run for which the magnetic field was initialised, -1 for none
  hfCollisionCounter, \* Produces<aod::HfOrigColCounts>
  hfReducedCollision, \* Produces<aod::HfRedCollision>
  hfCandD,            \* Produces<aod::HfRed3PrNoTrks>
  hfCandV0,           \* Produces<aod::HfRedVzeros>
  hEvents,            \* registry histogram hEvents
  doprocess2,         \* enabled process switch of the candidate creator
  invMassWindowD,     \* Configurable invMassWindowD
  invMassWindowV0,    \* Configurable invMassWindowV0
  activateQA,         \* Configurable activateQA
  nGrouped,           \* reduced collisions already handed to the candidate creator
  rowCandidateReso,   \* Produces<aod::HfCandCharmReso>
  hSelections         \* registry histogram hSelections

vars == <<pc, doprocess, nColl, nSeen, nDSeen, nV0Seen, collision, deltaMassK0s, runNumber, bField,
          hfCollisionCounter, hfReducedCollision, hfCandD, hfCandV0, hEvents,
          doprocess2, invMassWindowD, invMassWindowV0, activateQA, nGrouped,
          rowCandidateReso, hSelections>>

varsCreator == <<doprocess2, invMassWindowD, invMassWindowV0, activateQA, nGrouped,
                 rowCandidateReso, hSelections>>

varsReduced == <<doprocess, nColl, nSeen, nDSeen, nV0Seen, deltaMassK0s, runNumber, bField,
                 hfCollisionCounter, hfReducedCollision, hfCandD, hfCandV0, hEvents>>

----------------------------------------------------------------------------
(* Bounds of the model *)
MaxColl == 2      \* collisions of a data frame
MaxD == 3         \* rows of the D-candidate table of a data frame
MaxV0 == 2        \* rows of the V0 table of a data frame
MaxV0Sel == 1     \* rows of the V0 table in the runs on the wide V0 set

----------------------------------------------------------------------------
(* Enumerations *)
Processed == 0
NoDV0Selected == 1
DV0Selected == 2
kNEvent == 3

K0s == 0
Lambda == 1
AntiLambda == 2

Dplus == 1
Dstar == 2

(* Nominal masses (CommonConstants/PhysicsConstants.h) *)
MassK0 == 497611
MassLambda0 == 1115683
MassDPlus == 1869660
MassDStar == 2010260

(* Configurables of the data creator, default values *)
minK0sLambdaCosinePa == 97
minK0sLambdaRadius == 50
deltaMassK0sDefault == 30000
deltaMassLambda == 15000
minV0dauEta == 100
maxV0DCA == 10
minV0dauDCA == 5
maxV0dauDCA == 100

----------------------------------------------------------------------------
(* Helpers *)
Abs(x) == IF x < 0 THEN -x ELSE x

Pow2(n) == IF n = 0 THEN 1 ELSE IF n = 1 THEN 2 ELSE 4

BIT(n) == Pow2(n)

TESTBIT(x, n) == (x \div Pow2(n)) % 2 = 1

CLRBIT(x, n) == IF TESTBIT(x, n) THEN x - Pow2(n) ELSE x

(* the sequences without repetition of length at most n over the set S *)
SlicesOf(S, n) ==
  UNION { { s \in [1..k -> S] : \A i, j \in 1..k : i # j => s[i] # s[j] } : k \in 0..n }

(* the sequences of length at most n that follow the order of the sequence pool *)
SubSlicesOf(pool, n) ==
  LET picks == UNION { { f \in [1..k -> 1..Len(pool)] :
                           \A i, j \in 1..k : i < j => f[i] < f[j] } : k \in 0..n }
  IN  { [i \in DOMAIN f |-> pool[f[i]]] : f \in picks }

----------------------------------------------------------------------------
(* Input tables.  A D candidate carries the columns of both candidate      *)
(* shapes (HfCand3Prong+HfSelDplusToPiKPi, HfD0FromDstar+HfCandDstar);     *)
(* prong2Id is prong2Id() of a D+ and prongPiId() of a D*.                 *)
DCand(p0, p1, p2, sgn, mDp, mDst, mD0, mADst, mD0b) ==
  [prong0Id |-> p0, prong1Id |-> p1, prong2Id |-> p2, sign |-> sgn,
   invMassDplusToPiKPi |-> mDp,
   invMassDstar |-> mDst, invMassD0 |-> mD0,
   invMassAntiDstar |-> mADst, invMassD0Bar |-> mD0b]

(* rows of the D+ candidate table: two candidates share tracks with the third *)
CandsDplus ==
  << DCand(1, 2, 3, 1, 1870000, 0, 0, 0, 0),
     DCand(3, 4, 7, 1, 2400000, 0, 0, 0, 0),
     DCand(4, 5, 6, -1, 1800000, 0, 0, 0, 0) >>

(* rows of the D* candidate table *)
CandsDstar ==
  << DCand(1, 2, 3, 1, 0, 2010260, 1864840, 2030000, 1870000),
     DCand(3, 4, 7, 1, 0, 2015000, 1864000, 2030000, 1870000),
     DCand(4, 5, 6, -1, 0, 2030000, 1870000, 2012000, 1860000) >>

V0Cand(pos, neg, mK, mL, mAL, g) ==
  [posTrackId |-> pos, negTrackId |-> neg,
   mK0Short |-> mK, mLambda |-> mL, mAntiLambda |-> mAL,
   negativeeta |-> g[1], positiveeta |-> g[2], v0radius |-> g[3], v0cosPA |-> g[4],
   dcav0topv |-> g[5], dcaV0daughters |-> g[6], dcapostopv |-> g[7], dcanegtopv |-> g[8]]

(* geometry passing every cut of isSelectedV0 *)
GeomOk == <<-50, 50, 100, 99, 5, 50, 10, -10>>

(* V0 table rows of the pipeline runs *)
V0sCore ==
  << V0Cand(7, 8, 490000, 1300000, 1300000, GeomOk),
     V0Cand(9, 10, 500000, 1116000, 1115000, GeomOk),
     V0Cand(11, 12, 700000, 1116000, 1200000, GeomOk),
     V0Cand(14, 15, 495000, 1300000, 1116000, GeomOk),
     V0Cand(3, 4, 520000, 1300000, 1300000, GeomOk) >>

RunsCore == {1}

(* run numbers of the BC table in the runs on the calibration *)
RunIds == {0, 1, 2}

(* geometry on the edge of every cut of isSelectedV0 *)
GeomEdge == <<-100, 100, 50, 97, 10, 100, 5, -5>>

(* geometries that fail one cut each *)
GeomsBad ==
  { <<-101, 50, 100, 99, 5, 50, 10, -10>>,
    <<-50, 101, 100, 99, 5, 50, 10, -10>>,
    <<-50, 50, 49, 99, 5, 50, 10, -10>>,
    <<-50, 50, 100, 96, 5, 50, 10, -10>>,
    <<-50, 50, 100, 99, 11, 50, 10, -10>>,
    <<-50, 50, 100, 99, 5, 101, 10, -10>>,
    <<-50, 50, 100, 99, 5, 50, -4, -10>>,
    <<-50, 50, 100, 99, 5, 50, 10, 4>> }

(* masses inside, outside and on the edge of the windows of isSelectedV0 *)
MassesK0Short == {497000, 490000, 527612}
MassesLambda == {1130683, 1130684}
MassesAntiLambda == {1100683, 1100682}

(* V0 table rows of the runs that exercise the selection: daughters apart  *)
(* from every D candidate, or shared with one of them                      *)
V0sWide ==
  { V0Cand(p[1], p[2], mK, mL, mAL, GeomOk) :
      p \in {<<8, 9>>, <<1, 9>>, <<8, 6>>},
      mK \in MassesK0Short, mL \in MassesLambda, mAL \in MassesAntiLambda }
  \cup { V0Cand(8, 9, mK, mL, mAL, GeomEdge) :
           mK \in MassesK0Short, mL \in MassesLambda, mAL \in MassesAntiLambda }
  \cup { V0Cand(8, 9, 497000, 1116000, 1115000, g) : g \in GeomsBad }

----------------------------------------------------------------------------
(* dataCreatorDV0Reduced.cxx *)

(* reject V0s that share daughters with D, on the positive daughter only *)
sharesDaughterPosOnly(v0, dDaughtersIDs) ==
  v0.posTrackId \in {dDaughtersIDs[1], dDaughtersIDs[2], dDaughtersIDs[3]}

(* reject V0s that share daughters with D *)
sharesDaughter(v0, dDaughtersIDs) ==
  LET ids == {dDaughtersIDs[1], dDaughtersIDs[2], dDaughtersIDs[3]}
  IN  v0.posTrackId \in ids \/ v0.negTrackId \in ids

(* eta of daughters, minimum radius, cosine of pointing angle, DCAs *)
failsV0Cuts(v0) ==
  \/ Abs(v0.negativeeta) > minV0dauEta \/ Abs(v0.positiveeta) > minV0dauEta
  \/ v0.v0radius < minK0sLambdaRadius
  \/ v0.v0cosPA < minK0sLambdaCosinePa
  \/ v0.dcav0topv > maxV0DCA
  \/ v0.dcaV0daughters > maxV0dauDCA
  \/ Abs(v0.dcapostopv) < minV0dauDCA
  \/ Abs(v0.dcanegtopv) < minV0dauDCA

(* mass hypotheses, the anti-Lambda bit decided on the Lambda mass *)
massHypothesesOneLambda(v0, dMassK0s) ==
  LET all == BIT(K0s) + BIT(Lambda) + BIT(AntiLambda)
      s1 == IF TESTBIT(all, K0s) /\ Abs(v0.mK0Short - MassK0) > dMassK0s
            THEN CLRBIT(all, K0s) ELSE all
      s2 == IF TESTBIT(s1, Lambda) /\ Abs(v0.mLambda - MassLambda0) > deltaMassLambda
            THEN CLRBIT(s1, Lambda) ELSE s1
  IN  IF TESTBIT(s2, AntiLambda) /\ Abs(v0.mLambda - MassLambda0) > deltaMassLambda
      THEN CLRBIT(s2, AntiLambda) ELSE s2

(* mass hypotheses: every bit set, then cleared by its own mass window *)
massHypotheses(v0, dMassK0s) ==
  LET all == BIT(K0s) + BIT(Lambda) + BIT(AntiLambda)
      s1 == IF TESTBIT(all, K0s) /\ Abs(v0.mK0Short - MassK0) > dMassK0s
            THEN CLRBIT(all, K0s) ELSE all
      s2 == IF TESTBIT(s1, Lambda) /\ Abs(v0.mLambda - MassLambda0) > deltaMassLambda
            THEN CLRBIT(s1, Lambda) ELSE s1
  IN  IF TESTBIT(s2, AntiLambda) /\ Abs(v0.mAntiLambda - MassLambda0) > deltaMassLambda
      THEN CLRBIT(s2, AntiLambda) ELSE s2

(* a V0 that shares a daughter with the D candidate keeps its Lambda bits *)
isSelectedV0SharedKept(v0, dDaughtersIDs, dMassK0s) ==
  IF failsV0Cuts(v0) THEN 0
  ELSE IF sharesDaughter(v0, dDaughtersIDs) THEN CLRBIT(massHypotheses(v0, dMassK0s), K0s)
  ELSE massHypotheses(v0, dMassK0s)

(* Basic selection of V0 candidates: bitmap with the mass hypotheses *)
isSelectedV0(v0, dDaughtersIDs, dMassK0s) ==
  IF sharesDaughter(v0, dDaughtersIDs) THEN 0
  ELSE IF failsV0Cuts(v0) THEN 0
  ELSE massHypotheses(v0, dMassK0s)

(* invMassD of a candidate, per candidate shape *)
invMassDOf(chan, candD) ==
  IF chan = "DstarV0"
  THEN IF candD.sign > 0
       THEN candD.invMassDstar - candD.invMassD0
       ELSE candD.invMassAntiDstar - candD.invMassD0Bar
  ELSE candD.invMassDplusToPiKPi

(* d_type of a candidate, per candidate shape *)
dTypeOf(chan, candD) ==
  IF chan = "DstarV0" THEN candD.sign * Dstar ELSE candD.sign * Dplus

prongIdsOf(candD) == <<candD.prong0Id, candD.prong1Id, candD.prong2Id>>

(* a map that never finds its key *)
countV0Never(selectedV0s, key) == FALSE

(* has the map selectedV0s an entry for this key *)
countV0(selectedV0s, key) == \E e \in selectedV0s : e[1] = key

(* hfCandV0(...) row; v0Id and collId record the original V0 the row was   *)
(* copied from and the collision it belongs to                             *)
rowV0(v0, indexHfReducedCollision, v0_type) ==
  [prong0Id |-> v0.posTrackId, prong1Id |-> v0.negTrackId,
   hfRedCollisionId |-> indexHfReducedCollision,
   invMassK0s |-> v0.mK0Short, invMassLambda |-> v0.mLambda,
   invMassAntiLambda |-> v0.mAntiLambda,
   cpa |-> v0.v0cosPA, dca |-> v0.dcav0topv, radius |-> v0.v0radius,
   v0Type |-> v0_type, v0Id |-> v0.globalIndex, collId |-> v0.collisionId]

(* one pass of the V0 loop for one D candidate, from V0 number i on;       *)
(* st = [selectedV0s, hfCandV0, fillHfCandD]                               *)
RECURSIVE loopV0(_, _, _, _, _, _)
loopV0(V0s, i, prongIdsD, indexHfReducedCollision, dMassK0s, st) ==
  IF i > Len(V0s) THEN st
  ELSE
    LET v0 == V0s[i]
        v0_type == isSelectedV0(v0, prongIdsD, dMassK0s)
        stored == countV0(st.selectedV0s, v0.globalIndex)
        tab == IF stored THEN st.hfCandV0
               ELSE Append(st.hfCandV0, rowV0(v0, indexHfReducedCollision, v0_type))
        sel == IF stored THEN st.selectedV0s
               ELSE st.selectedV0s \cup {<<v0.globalIndex, Len(tab) - 1>>}
    IN  IF v0_type = 0
        THEN loopV0(V0s, i + 1, prongIdsD, indexHfReducedCollision, dMassK0s, st)
        ELSE loopV0(V0s, i + 1, prongIdsD, indexHfReducedCollision, dMassK0s,
                    [selectedV0s |-> sel, hfCandV0 |-> tab, fillHfCandD |-> TRUE])

(* hfCandD(...) row; dId and collId record the original candidate the row  *)
(* was copied from and the collision it belongs to                         *)
rowD(chan, candD, indexHfReducedCollision) ==
  [prong0Id |-> candD.prong0Id, prong1Id |-> candD.prong1Id, prong2Id |-> candD.prong2Id,
   hfRedCollisionId |-> indexHfReducedCollision,
   invMass |-> invMassDOf(chan, candD),
   dType |-> dTypeOf(chan, candD), dId |-> candD.globalIndex, collId |-> candD.collisionId]

(* fill the D table whether or not a V0 was found *)
fillsCandDAlways(fillHfCandD) == TRUE

(* fill candD table only once per D candidate, only if at least one V0 is found *)
fillsCandD(fillHfCandD) == fillHfCandD

(* the loop on D candidates, from candidate number j on;                   *)
(* st = [selectedV0s, hfCandV0, hfCandD, fillHfReducedCollision]           *)
RECURSIVE loopD(_, _, _, _, _, _, _)
loopD(chan, candsD, V0s, j, indexHfReducedCollision, dMassK0s, st) ==
  IF j > Len(candsD) THEN st
  ELSE
    LET candD == candsD[j]
        r == loopV0(V0s, 1, prongIdsOf(candD), indexHfReducedCollision, dMassK0s,
                    [selectedV0s |-> st.selectedV0s, hfCandV0 |-> st.hfCandV0,
                     fillHfCandD |-> FALSE])
    IN  loopD(chan, candsD, V0s, j + 1, indexHfReducedCollision, dMassK0s,
              [selectedV0s |-> r.selectedV0s,
               hfCandV0 |-> r.hfCandV0,
               hfCandD |-> IF fillsCandD(r.fillHfCandD)
                           THEN Append(st.hfCandD, rowD(chan, candD, indexHfReducedCollision))
                           ELSE st.hfCandD,
               fillHfReducedCollision |->
                 st.fillHfReducedCollision \/ fillsCandD(r.fillHfCandD)])

(* lastIndex() of a table cursor *)
lastIndex(table) == Len(table) - 1

(* the index of the collision in the input table *)
nextIndexOfInput(table, coll) == coll.globalIndex

(* indexHfReducedCollision: the row the collision gets if it is written *)
nextIndex(table, coll) == lastIndex(table) + 1

(* fill the collision table for every collision *)
fillsCollisionAlways(fillHfReducedCollision) == TRUE

(* fill collision table if it contains a D-V0 pair a minima *)
fillsCollision(fillHfReducedCollision) == fillHfReducedCollision

(* hfReducedCollision(...) row; collId records the original collision *)
rowColl(coll) == [runTag |-> 0, collId |-> coll.globalIndex]

(* a bin filled twice *)
fillTwice(hist, bin) == [hist EXCEPT ![bin] = @ + 2]

(* one entry more in a bin of a histogram *)
fill(hist, bin) == [hist EXCEPT ![bin] = @ + 1]

(* the slice of a table for one collision: rows numbered from the offset *)
sliceBy(rows, offset, thisCollId) ==
  [i \in 1..Len(rows) |->
     [globalIndex |-> offset + i - 1, collisionId |-> thisCollId] @@ rows[i]]

(* runDataCreation for the next collision of the table, the calibration    *)
(* object being available (grpo # nullptr) or the run unchanged            *)
runDataCreation(coll, grpo) ==
  /\ pc = "reduce"
  /\ nSeen < nColl
  /\ runNumber # coll.runNumber => grpo
  /\ LET indexHfReducedCollision == nextIndex(hfReducedCollision, coll)
         r == loopD(doprocess, coll.candsD, coll.V0s, 1, indexHfReducedCollision,
                    deltaMassK0s,
                    [selectedV0s |-> {}, hfCandV0 |-> hfCandV0, hfCandD |-> hfCandD,
                     fillHfReducedCollision |-> FALSE])
     IN  /\ hfCandV0' = r.hfCandV0
         /\ hfCandD' = r.hfCandD
         /\ IF ~fillsCollision(r.fillHfReducedCollision)
            THEN /\ hEvents' = fill(fill(hEvents, Processed), NoDV0Selected)
                 /\ hfReducedCollision' = hfReducedCollision
            ELSE /\ hEvents' = fill(fill(hEvents, Processed), DV0Selected)
                 /\ hfReducedCollision' = Append(hfReducedCollision, rowColl(coll))
  /\ runNumber' = coll.runNumber
  /\ bField' = IF runNumber # coll.runNumber THEN coll.runNumber ELSE bField
  /\ collision' = coll
  /\ nSeen' = nSeen + 1
  /\ nDSeen' = nDSeen + Len(coll.candsD)
  /\ nV0Seen' = nV0Seen + Len(coll.V0s)
  /\ pc' = IF nSeen + 1 = nColl THEN "reduced" ELSE "reduce"
  /\ UNCHANGED <<doprocess, nColl, deltaMassK0s, hfCollisionCounter>>
  /\ UNCHANGED varsCreator

(* the missing GRP object is found after the run number was cached *)
runDataCreationCachedFirst(coll, grpo) ==
  /\ pc = "reduce"
  /\ nSeen < nColl
  /\ runNumber # coll.runNumber
  /\ ~grpo
  /\ pc' = "fatal"
  /\ runNumber' = coll.runNumber
  /\ UNCHANGED <<doprocess, nColl, nSeen, nDSeen, nV0Seen, collision, deltaMassK0s, bField,
                 hfCollisionCounter, hfReducedCollision, hfCandD, hfCandV0, hEvents>>
  /\ UNCHANGED varsCreator

(* runDataCreation when the run changed and the GRP object is missing:     *)
(* LOGF(fatal, ...) ends the job                                           *)
runDataCreationFatal(coll, grpo) ==
  /\ pc = "reduce"
  /\ nSeen < nColl
  /\ runNumber # coll.runNumber
  /\ ~grpo
  /\ pc' = "fatal"
  /\ UNCHANGED <<doprocess, nColl, nSeen, nDSeen, nV0Seen, collision, deltaMassK0s,
                 runNumber, bField,
                 hfCollisionCounter, hfReducedCollision, hfCandD, hfCandV0, hEvents>>
  /\ UNCHANGED varsCreator

(* the collisions a data frame can hold next, with their table slices *)
Collisions(DS, VS, RU) ==
  { [globalIndex |-> nSeen, runNumber |-> run,
     candsD |-> sliceBy(ds, nDSeen, nSeen), V0s |-> sliceBy(vs, nV0Seen, nSeen)] :
      run \in RU, ds \in DS, vs \in VS }

(* processDplusV0 / processDstarV0, up to the loop on the collisions *)
processBegin(switch) ==
  /\ pc = "start"
  /\ doprocess = switch
  /\ hfCollisionCounter' = Append(hfCollisionCounter, nColl)
  /\ pc' = IF nColl = 0 THEN "reduced" ELSE "reduce"
  /\ UNCHANGED <<doprocess, nColl, nSeen, nDSeen, nV0Seen, collision, deltaMassK0s,
                 runNumber, bField, hfReducedCollision, hfCandD, hfCandV0, hEvents>>
  /\ UNCHANGED varsCreator

processDplusV0 == processBegin("DplusV0")

processDstarV0 == processBegin("DstarV0")

CandsDOf(switch) == IF switch = "DstarV0" THEN CandsDstar ELSE CandsDplus

(* one turn of the loop on the collisions *)
loopCollisions ==
  \E coll \in Collisions(SubSlicesOf(CandsDOf(doprocess), MaxD - nDSeen),
                         SubSlicesOf(V0sCore, MaxV0 - nV0Seen), RunsCore),
     grpo \in BOOLEAN :
    \/ runDataCreation(coll, grpo)
    \/ runDataCreationFatal(coll, grpo)

(* D and V0 table rows of the runs on the calibration: one kind of each *)
CandsRun(switch) == SubSeq(CandsDOf(switch), 1, 1)

V0sRun == SubSeq(V0sCore, 1, 1)

(* one turn of the loop on the collisions, the run number of the collision *)
(* taken from RunIds                                                       *)
loopCollisionsRuns ==
  \E coll \in Collisions(SubSlicesOf(CandsRun(doprocess), MaxD - nDSeen),
                         SubSlicesOf(V0sRun, MaxV0 - nV0Seen), RunIds),
     grpo \in BOOLEAN :
    \/ runDataCreation(coll, grpo)
    \/ runDataCreationFatal(coll, grpo)

(* one turn of the loop on the collisions, the V0s taken from the wide set *)
loopCollisionsWide ==
  \E coll \in Collisions(SubSlicesOf(CandsDOf(doprocess), MaxD - nDSeen),
                         SlicesOf(V0sWide, MaxV0Sel - nV0Seen), RunsCore),
     grpo \in BOOLEAN :
    \/ runDataCreation(coll, grpo)
    \/ runDataCreationFatal(coll, grpo)

----------------------------------------------------------------------------
(* candidateCreatorDV0Reduced.cxx *)
NoSel == 0
DSel == 1
V0Sel == 2
NSelSteps == 3

invMassWindowDDefault == 500000
invMassWindowV0Default == 500000

(* the configurations the candidate creator is run with: <<window D, window V0>> *)
Windows == { <<invMassWindowDDefault, invMassWindowV0Default>>, <<20000, 5000>> }

massK0 == MassK0
massLambda == MassLambda0
massDplus == MassDPlus
massDstar == MassDStar

(* Partition of V0 candidates based on v0Type *)
candidatesK0s(candsV0) ==
  SelectSeq(candsV0, LAMBDA v : v.row.v0Type = 1 \/ v.row.v0Type = 3 \/ v.row.v0Type = 5)

candidatesLambda(candsV0) ==
  SelectSeq(candsV0, LAMBDA v : v.row.v0Type = 2 \/ v.row.v0Type = 4)

(* the rows of a table that point to one reduced collision, with their row numbers *)
groupBy(table, collId) ==
  SelectSeq([i \in 1..Len(table) |-> [index |-> i - 1, row |-> table[i]]],
            LAMBDA e : e.row.hfRedCollisionId = collId)

isDSelected(channel, candD, windowD) ==
  LET massD == IF channel = "Dstar2toDplusK0s" \/ channel = "XctoDplusLambda" THEN massDplus
               ELSE IF channel = "Ds1toDstarK0s" THEN massDstar
               ELSE 0
  IN  ~(Abs(candD.invMass - massD) > windowD)

(* the V0 mass of the hypothesis the channel looks at *)
invMassV0Of(channel, candV0, candD) ==
  IF channel = "Dstar2toDplusK0s" \/ channel = "Ds1toDstarK0s" THEN candV0.invMassK0s
  ELSE IF channel = "XctoDplusLambda"
       THEN IF candD.dType > 0 THEN candV0.invMassLambda ELSE candV0.invMassAntiLambda
       ELSE 0

isV0Selected(channel, candV0, candD, windowV0) ==
  LET massV0 == IF channel = "Dstar2toDplusK0s" \/ channel = "Ds1toDstarK0s" THEN massK0
                ELSE IF channel = "XctoDplusLambda" THEN massLambda
                ELSE 0
  IN  ~(Abs(invMassV0Of(channel, candV0, candD) - massV0) > windowV0)

(* rowCandidateReso(...) row; dRow and v0Row record the two rows it combines *)
rowReso(channel, collId, d, v) ==
  [hfRedCollisionId |-> collId,
   invMassD |-> d.row.invMass,
   invMassV0 |-> invMassV0Of(channel, v.row, d.row),
   cpa |-> v.row.cpa, dca |-> v.row.dca, radius |-> v.row.radius,
   dRow |-> d.index, v0Row |-> v.index]

(* count every selected V0 in the last bin *)
countsV0SelEach(qa, already_counted) == qa

(* the last bin is filled for the first selected V0 of a D candidate *)
countsV0Sel(qa, already_counted) == qa /\ ~already_counted

(* the loop on V0 candidates for one D candidate, from V0 number i on;     *)
(* st = [rows, hist, already_counted]                                      *)
RECURSIVE loopCandV0(_, _, _, _, _, _, _, _)
loopCandV0(channel, collId, d, candsV0, i, windowV0, qa, st) ==
  IF i > Len(candsV0) THEN st
  ELSE
    LET v == candsV0[i]
    IN  IF ~isV0Selected(channel, v.row, d.row, windowV0)
        THEN loopCandV0(channel, collId, d, candsV0, i + 1, windowV0, qa, st)
        ELSE loopCandV0(channel, collId, d, candsV0, i + 1, windowV0, qa,
               [rows |-> Append(st.rows, rowReso(channel, collId, d, v)),
                hist |-> IF countsV0Sel(qa, st.already_counted)
                         THEN fill(st.hist, V0Sel) ELSE st.hist,
                already_counted |-> IF countsV0Sel(qa, st.already_counted) THEN TRUE
                                    ELSE st.already_counted])

(* the loop on D candidates, from candidate number j on; st = [rows, hist] *)
RECURSIVE loopCandD(_, _, _, _, _, _, _, _, _)
loopCandD(channel, collId, candsD, candsV0, j, windowD, windowV0, qa, st) ==
  IF j > Len(candsD) THEN st
  ELSE
    LET d == candsD[j]
        h1 == IF qa THEN fill(st.hist, NoSel) ELSE st.hist
        h2 == IF qa THEN fill(h1, DSel) ELSE h1
        r == loopCandV0(channel, collId, d, candsV0, 1, windowV0, qa,
                        [rows |-> st.rows, hist |-> h2, already_counted |-> FALSE])
    IN  IF ~isDSelected(channel, d.row, windowD)
        THEN loopCandD(channel, collId, candsD, candsV0, j + 1, windowD, windowV0, qa,
                       [rows |-> st.rows, hist |-> h1])
        ELSE loopCandD(channel, collId, candsD, candsV0, j + 1, windowD, windowV0, qa,
                       [rows |-> r.rows, hist |-> r.hist])

(* the V0 rows a process function hands to runCandidateCreation *)
partitionOf(channel, candsV0) ==
  IF channel = "XctoDplusLambda" THEN candidatesLambda(candsV0) ELSE candidatesK0s(candsV0)

(* the tables a grouped process function receives for one reduced collision *)
groupedD(collId) == groupBy(hfCandD, collId)

(* the V0 table of the whole data frame *)
ungroupedV0(collId) == [i \in 1..Len(hfCandV0) |-> [index |-> i - 1, row |-> hfCandV0[i]]]

groupedV0(collId) == groupBy(hfCandV0, collId)

runCandidateCreation(channel) ==
  /\ pc = "create"
  /\ doprocess2 = channel
  /\ nGrouped < Len(hfReducedCollision)
  /\ LET collId == nGrouped
         r == loopCandD(channel, collId, groupedD(collId),
                        partitionOf(channel, groupedV0(collId)), 1,
                        invMassWindowD, invMassWindowV0, activateQA,
                        [rows |-> rowCandidateReso, hist |-> hSelections])
     IN  /\ rowCandidateReso' = r.rows
         /\ hSelections' = r.hist
         /\ collision' = [globalIndex |-> collId]
  /\ nGrouped' = nGrouped + 1
  /\ pc' = IF nGrouped + 1 = Len(hfReducedCollision) THEN "done" ELSE "create"
  /\ UNCHANGED <<doprocess2, invMassWindowD, invMassWindowV0, activateQA>>
  /\ UNCHANGED varsReduced

processDstar2ToDplusK0s == runCandidateCreation("Dstar2toDplusK0s")

processDs1toDstarK0s == runCandidateCreation("Ds1toDstarK0s")

processXctoDplusLambda == runCandidateCreation("XctoDplusLambda")

(* the process switches that read the output of a data-creator switch *)
ChannelsOf(switch) ==
  IF switch = "DstarV0" THEN {"Ds1toDstarK0s"} ELSE {"Dstar2toDplusK0s", "XctoDplusLambda"}

(* init(InitContext) of the candidate creator, run on the reduced tables *)
initCreator ==
  /\ pc = "reduced"
  /\ doprocess2' \in ChannelsOf(doprocess)
  /\ \E w \in Windows : invMassWindowD' = w[1] /\ invMassWindowV0' = w[2]
  /\ activateQA' \in BOOLEAN
  /\ pc' = IF Len(hfReducedCollision) = 0 THEN "done" ELSE "create"
  /\ collision' = [globalIndex |-> -1]
  /\ UNCHANGED <<nGrouped, rowCandidateReso, hSelections>>
  /\ UNCHANGED varsReduced

NoCollision == [globalIndex |-> -1, runNumber |-> 0, candsD |-> <<>>, V0s |-> <<>>]

InitWith(nc, dmk) ==
  /\ pc = "start"
  /\ doprocess \in {"DplusV0", "DstarV0"}
  /\ nColl \in nc
  /\ nSeen = 0
  /\ nDSeen = 0
  /\ nV0Seen = 0
  /\ collision = NoCollision
  /\ deltaMassK0s \in dmk
  /\ runNumber = 0
  /\ bField = -1
  /\ hfCollisionCounter = <<>>
  /\ hfReducedCollision = <<>>
  /\ hfCandD = <<>>
  /\ hfCandV0 = <<>>
  /\ hEvents = [b \in 0..(kNEvent - 1) |-> 0]
  /\ doprocess2 = "none"
  /\ invMassWindowD = invMassWindowDDefault
  /\ invMassWindowV0 = invMassWindowV0Default
  /\ activateQA = FALSE
  /\ nGrouped = 0
  /\ rowCandidateReso = <<>>
  /\ hSelections = [b \in 0..(NSelSteps - 1) |-> 0]

Init == InitWith(0..MaxColl, {deltaMassK0sDefault})

Next ==
  \/ processDplusV0
  \/ processDstarV0
  \/ loopCollisions
  \/ initCreator
  \/ processDstar2ToDplusK0s
  \/ processDs1toDstarK0s
  \/ processXctoDplusLambda

Spec == Init /\ [][Next]_vars

(* the reduction of a data frame of one collision, under both tolerances   *)
(* of the K-short window that the selection is run with                    *)
InitSel == InitWith({1}, {5000, deltaMassK0sDefault})

NextSel ==
  \/ processDplusV0
  \/ processDstarV0
  \/ loopCollisionsWide

SpecSel == InitSel /\ [][NextSel]_vars

(* the reduction of a data frame whose collisions belong to several runs *)
InitRun == InitWith(1..MaxColl, {deltaMassK0sDefault})

NextRun ==
  \/ processDplusV0
  \/ processDstarV0
  \/ loopCollisionsRuns

SpecRun == InitRun /\ [][NextRun]_vars

----------------------------------------------------------------------------
(* Properties of the reduction stage.                                      *)
(* After a turn of the loop on the collisions, the variable collision      *)
(* holds the collision just handled, with its D and V0 slices.             *)
JustReduced == pc \in {"reduce", "reduced"} /\ nSeen > 0

(* the evaluator finds the V0 compatible with the D candidate *)
Selects(candD, v0) == isSelectedV0(v0, prongIdsOf(candD), deltaMassK0s) # 0

HasV0(coll, candD) == \E j \in DOMAIN coll.V0s : Selects(candD, coll.V0s[j])

HasD(coll, v0) == \E i \in DOMAIN coll.candsD : Selects(coll.candsD[i], v0)

HasPair(coll) == \E i \in DOMAIN coll.candsD : HasV0(coll, coll.candsD[i])

RowsOf(table, collId) == { i \in DOMAIN table : table[i].collId = collId }

(* C1: a turn of the loop appends one reduced-collision row, for the       *)
(* collision it handled, if and only if a D candidate of that collision    *)
(* had a V0 with a non-zero bitmask, and otherwise leaves the table alone; *)
(* the table never has more rows than collisions were handled.             *)
C1_CollisionRowIffPair ==
  /\ [](Len(hfReducedCollision) <= nSeen)
  /\ [][nSeen' = nSeen + 1 =>
          IF HasPair(collision')
          THEN /\ Len(hfReducedCollision') = Len(hfReducedCollision) + 1
               /\ SubSeq(hfReducedCollision', 1, Len(hfReducedCollision)) = hfReducedCollision
               /\ hfReducedCollision'[Len(hfReducedCollision')].collId = collision'.globalIndex
          ELSE hfReducedCollision' = hfReducedCollision]_vars

(* C1 witness: two collisions handled, the first written, the second with  *)
(* D candidates and V0s but no compatible pair, and skipped.               *)
C1_Witness ==
  /\ JustReduced
  /\ nSeen = 2
  /\ Len(hfReducedCollision) = 1
  /\ hfReducedCollision[1].collId = 0
  /\ Len(collision.candsD) > 0
  /\ Len(collision.V0s) > 0
  /\ ~HasPair(collision)

(* C2: no two rows of the reduced-V0 table written for one collision come  *)
(* from the same V0; for the collision just handled every V0 has one row   *)
(* if some D candidate selected it and none otherwise, so that two D       *)
(* candidates pairing with the same single V0 give one V0 row, two D rows  *)
(* and one collision row.                                                  *)
C2_V0StoredOnce ==
  /\ \A i, j \in DOMAIN hfCandV0 :
       (i # j /\ hfCandV0[i].collId = hfCandV0[j].collId) => hfCandV0[i].v0Id # hfCandV0[j].v0Id
  /\ JustReduced =>
       /\ \A j \in DOMAIN collision.V0s :
            Cardinality({ i \in RowsOf(hfCandV0, collision.globalIndex) :
                            hfCandV0[i].v0Id = collision.V0s[j].globalIndex })
              = IF HasD(collision, collision.V0s[j]) THEN 1 ELSE 0
       /\ ( /\ Len(collision.V0s) = 1
            /\ Len(collision.candsD) = 2
            /\ \A i \in DOMAIN collision.candsD : HasV0(collision, collision.candsD[i]) )
          => /\ Cardinality(RowsOf(hfCandV0, collision.globalIndex)) = 1
             /\ Cardinality(RowsOf(hfCandD, collision.globalIndex)) = 2
             /\ Cardinality(RowsOf(hfReducedCollision, collision.globalIndex)) = 1

(* C2 witness: a second collision in which two D candidates pair with the  *)
(* same single V0.                                                         *)
C2_Witness ==
  /\ JustReduced
  /\ nSeen = 2
  /\ Len(collision.V0s) = 1
  /\ Len(collision.candsD) = 2
  /\ \A i \in DOMAIN collision.candsD : HasV0(collision, collision.candsD[i])
  /\ Cardinality(RowsOf(hfCandV0, collision.globalIndex)) = 1

(* C3: for the collision just handled, every D candidate has exactly one   *)
(* row in the reduced-D table if a V0 of the collision is compatible with  *)
(* it and no row otherwise; with no D candidate or no V0 nothing at all is *)
(* written for the collision.                                              *)
C3_DWrittenOnceIffV0 ==
  JustReduced =>
    /\ \A i \in DOMAIN collision.candsD :
         Cardinality({ k \in DOMAIN hfCandD : hfCandD[k].dId = collision.candsD[i].globalIndex })
           = IF HasV0(collision, collision.candsD[i]) THEN 1 ELSE 0
    /\ Cardinality(RowsOf(hfCandD, collision.globalIndex))
         = Cardinality({ i \in DOMAIN collision.candsD : HasV0(collision, collision.candsD[i]) })
    /\ (Len(collision.candsD) = 0 \/ Len(collision.V0s) = 0) =>
         /\ RowsOf(hfCandD, collision.globalIndex) = {}
         /\ RowsOf(hfCandV0, collision.globalIndex) = {}
         /\ RowsOf(hfReducedCollision, collision.globalIndex) = {}

(* C3 witness: a collision with three D candidates and two V0s, of which   *)
(* one D candidate shares a track with every V0 it could pair with.        *)
C3_Witness ==
  /\ JustReduced
  /\ Len(collision.candsD) = 3
  /\ Len(collision.V0s) = 2
  /\ \E i \in DOMAIN collision.candsD : ~HasV0(collision, collision.candsD[i])
  /\ Cardinality(RowsOf(hfCandD, collision.globalIndex)) = 2

SharesTrack(candD, v0) ==
  {v0.posTrackId, v0.negTrackId} \cap {candD.prong0Id, candD.prong1Id, candD.prong2Id} # {}

(* the rows of the reduced-V0 table written from this V0 *)
RowsOfV0(v0) == { k \in DOMAIN hfCandV0 : hfCandV0[k].v0Id = v0.globalIndex }

(* C7: a V0 with a daughter track among the prongs of a D candidate gets   *)
(* bitmask 0 for that D candidate, whatever its masses and geometry.  The  *)
(* test is made per D candidate: a V0 that shares a track with every D     *)
(* candidate of its collision is not stored, a D candidate that shares a   *)
(* track with every V0 is not written, and a V0 that passes for one D      *)
(* candidate is stored, and that candidate written, even if the V0 shares  *)
(* a track with another D candidate.                                       *)
C7_SharedDaughterRejected ==
  JustReduced =>
    /\ \A i \in DOMAIN collision.candsD, j \in DOMAIN collision.V0s :
         LET candD == collision.candsD[i]
             v0 == collision.V0s[j]
         IN  /\ SharesTrack(candD, v0) =>
                  isSelectedV0(v0, prongIdsOf(candD), deltaMassK0s) = 0
             /\ ( /\ ~SharesTrack(candD, v0)
                  /\ ~failsV0Cuts(v0)
                  /\ massHypotheses(v0, deltaMassK0s) # 0 )
                => /\ RowsOfV0(v0) # {}
                   /\ \E k \in DOMAIN hfCandD : hfCandD[k].dId = candD.globalIndex
    /\ \A j \in DOMAIN collision.V0s :
         (\A i \in DOMAIN collision.candsD : SharesTrack(collision.candsD[i], collision.V0s[j]))
           => RowsOfV0(collision.V0s[j]) = {}
    /\ \A i \in DOMAIN collision.candsD :
         (\A j \in DOMAIN collision.V0s : SharesTrack(collision.candsD[i], collision.V0s[j]))
           => \A k \in DOMAIN hfCandD : hfCandD[k].dId # collision.candsD[i].globalIndex

(* C7 witness: a V0 that shares its negative daughter with one of two D    *)
(* candidates and is stored for the other, which alone is written.         *)
C7_Witness ==
  /\ JustReduced
  /\ Len(collision.candsD) = 2
  /\ \E j \in DOMAIN collision.V0s :
       LET v0 == collision.V0s[j]
       IN  /\ \E i \in DOMAIN collision.candsD :
                 v0.negTrackId \in {collision.candsD[i].prong0Id, collision.candsD[i].prong1Id,
                                    collision.candsD[i].prong2Id}
           /\ RowsOfV0(v0) # {}
  /\ Len(hfCandD) = 1

(* the bitmask that the three mass windows give *)
BitsInWindow(v0) ==
  (IF Abs(v0.mK0Short - MassK0) <= deltaMassK0s THEN 1 ELSE 0)
  + (IF Abs(v0.mLambda - MassLambda0) <= deltaMassLambda THEN 2 ELSE 0)
  + (IF Abs(v0.mAntiLambda - MassLambda0) <= deltaMassLambda THEN 4 ELSE 0)

(* C8: for a V0 that passes the daughter test for some D candidate and the *)
(* geometric cuts, each of the three bits is set if and only if the mass   *)
(* of its hypothesis lies within its tolerance of the nominal mass, with   *)
(* no bit depending on another; the V0 has one row carrying that bitmask,  *)
(* or no row if no bit is set, so that bitmask 0 is never stored.  A V0 of *)
(* K-short mass 0.490 has the K-short bit with tolerance 0.03 and not with *)
(* tolerance 0.005.                                                        *)
C8_BitsIndependent ==
  /\ \A k \in DOMAIN hfCandV0 : hfCandV0[k].v0Type \in 1..7
  /\ JustReduced =>
       \A j \in DOMAIN collision.V0s :
         LET v0 == collision.V0s[j]
         IN  ( /\ ~failsV0Cuts(v0)
               /\ \E i \in DOMAIN collision.candsD : ~SharesTrack(collision.candsD[i], v0) )
             => /\ Cardinality(RowsOfV0(v0)) = IF BitsInWindow(v0) = 0 THEN 0 ELSE 1
                /\ \A k \in RowsOfV0(v0) :
                     /\ hfCandV0[k].v0Type = BitsInWindow(v0)
                     /\ v0.mK0Short = 490000 =>
                          (TESTBIT(hfCandV0[k].v0Type, K0s) <=> deltaMassK0s = 30000)

(* C8 witness: with tolerance 0.005 a V0 of K-short mass 0.490 is stored   *)
(* with the two other bits and without the K-short bit.                    *)
C8_Witness ==
  /\ JustReduced
  /\ deltaMassK0s = 5000
  /\ \E k \in DOMAIN hfCandV0 :
       /\ hfCandV0[k].invMassK0s = 490000
       /\ hfCandV0[k].v0Type = 6

(* t is s with rows appended *)
IsPrefix(s, t) == Len(s) <= Len(t) /\ SubSeq(t, 1, Len(s)) = s

(* C9: the foreign key of every reduced-D and reduced-V0 row is the row    *)
(* number of the reduced-collision row written for the collision the row   *)
(* came from; the reduced-collision rows follow the order in which the     *)
(* collisions were handled, a collision that was skipped taking no row     *)
(* number; and the tables only grow by rows appended at their end.         *)
C9_ForeignKeys ==
  /\ [] /\ \A k \in DOMAIN hfCandD :
             /\ hfCandD[k].hfRedCollisionId \in 0..(Len(hfReducedCollision) - 1)
             /\ hfReducedCollision[hfCandD[k].hfRedCollisionId + 1].collId = hfCandD[k].collId
        /\ \A k \in DOMAIN hfCandV0 :
             /\ hfCandV0[k].hfRedCollisionId \in 0..(Len(hfReducedCollision) - 1)
             /\ hfReducedCollision[hfCandV0[k].hfRedCollisionId + 1].collId = hfCandV0[k].collId
        /\ \A a, b \in DOMAIN hfReducedCollision :
             a < b => hfReducedCollision[a].collId < hfReducedCollision[b].collId
        /\ \A a \in DOMAIN hfReducedCollision :
             /\ \E k \in DOMAIN hfCandD : hfCandD[k].hfRedCollisionId = a - 1
             /\ \E k \in DOMAIN hfCandV0 : hfCandV0[k].hfRedCollisionId = a - 1
  /\ [][ /\ IsPrefix(hfReducedCollision, hfReducedCollision')
         /\ Len(hfReducedCollision') <= Len(hfReducedCollision) + 1
         /\ IsPrefix(hfCandD, hfCandD')
         /\ IsPrefix(hfCandV0, hfCandV0')
         /\ IsPrefix(rowCandidateReso, rowCandidateReso') ]_vars

(* C9 witness: the first collision had D candidates and V0s and was        *)
(* skipped, the second was written as row 0 and its rows refer to row 0.   *)
C9_Witness ==
  /\ JustReduced
  /\ nSeen = 2
  /\ nDSeen > Len(collision.candsD)
  /\ nV0Seen > Len(collision.V0s)
  /\ Len(hfReducedCollision) = 1
  /\ hfReducedCollision[1].collId = 1
  /\ \E k \in DOMAIN hfCandD : hfCandD[k].collId = 1 /\ hfCandD[k].hfRedCollisionId = 0
  /\ \E k \in DOMAIN hfCandV0 : hfCandV0[k].collId = 1 /\ hfCandV0[k].hfRedCollisionId = 0

(* C11: a collision that runDataCreation has handled is either discarded,  *)
(* with no row added to any table, or persisted, with one collision row    *)
(* and at least one D row and one V0 row added; in both cases it adds one  *)
(* entry to the bin of the processed events and one entry to the bin of    *)
(* its outcome.  At any time the processed events are the events without   *)
(* pairs plus the events with pairs, and the events with pairs are as many *)
(* as the rows of the reduced-collision table.                             *)
C11_EventBookkeeping ==
  /\ [] /\ hEvents[Processed] = nSeen
        /\ hEvents[Processed] = hEvents[NoDV0Selected] + hEvents[DV0Selected]
        /\ hEvents[DV0Selected] = Len(hfReducedCollision)
  /\ [][nSeen' = nSeen + 1 =>
          /\ hEvents'[Processed] = hEvents[Processed] + 1
          /\ \/ /\ hfReducedCollision' = hfReducedCollision   \* Discarded
                /\ hfCandD' = hfCandD
                /\ hfCandV0' = hfCandV0
                /\ hEvents'[NoDV0Selected] = hEvents[NoDV0Selected] + 1
                /\ hEvents'[DV0Selected] = hEvents[DV0Selected]
             \/ /\ Len(hfReducedCollision') = Len(hfReducedCollision) + 1   \* Persisted
                /\ Len(hfCandD') > Len(hfCandD)
                /\ Len(hfCandV0') > Len(hfCandV0)
                /\ hEvents'[NoDV0Selected] = hEvents[NoDV0Selected]
                /\ hEvents'[DV0Selected] = hEvents[DV0Selected] + 1 ]_vars

(* C11 witness: of two collisions the first was persisted and the second,  *)
(* which had no D candidate, discarded.                                    *)
C11_Witness ==
  /\ pc = "reduced"
  /\ nSeen = 2
  /\ Len(collision.candsD) = 0
  /\ hEvents[Processed] = 2
  /\ hEvents[NoDV0Selected] = 1
  /\ hEvents[DV0Selected] = 1
  /\ Len(hfReducedCollision) = 1
  /\ hfReducedCollision[1].collId = 0

(* C14: whatever the run numbers of the collisions, the magnetic field in  *)
(* force while the candidates of a collision were evaluated had been       *)
(* initialised for the run of that collision, and the cached run number is *)
(* the run of the collision handled last.                                  *)
C14_FieldOfCollisionRun ==
  JustReduced => (bField = collision.runNumber /\ runNumber = collision.runNumber)

(* every table and counter the reduction writes *)
outputsReduced == <<hfReducedCollision, hfCandD, hfCandV0, hEvents, hfCollisionCounter>>

(* C15: the job stops only in a turn of the loop whose collision belongs   *)
(* to another run than the cached one; the turn that stops it leaves the   *)
(* field, the cached run number, the tables and the counters as they were, *)
(* and nothing changes afterwards.  A turn that does not stop the job      *)
(* counts its collision, whatever was rejected in it, and a data frame     *)
(* that was not stopped has had all its collisions handled.                *)
C15_MissingCalibrationFatal ==
  /\ [][pc' = "fatal" =>
          /\ pc = "reduce"
          /\ nSeen < nColl
          /\ bField' = bField
          /\ runNumber' = runNumber
          /\ nSeen' = nSeen
          /\ outputsReduced' = outputsReduced ]_vars
  /\ [][pc # "fatal"]_vars
  /\ [][(pc = "reduce" /\ pc' # "fatal") =>
          /\ nSeen' = nSeen + 1
          /\ hEvents'[Processed] = hEvents[Processed] + 1 ]_vars
  /\ [](pc = "reduced" => nSeen = nColl)
  /\ [](pc = "fatal" => hEvents[Processed] = nSeen /\ nSeen < nColl)

(* C15 witness: the first collision was written for one run, the second    *)
(* belonged to another run whose calibration object was missing.           *)
C15_Witness ==
  /\ pc = "fatal"
  /\ nSeen = 1
  /\ nColl = 2
  /\ runNumber = collision.runNumber
  /\ bField = runNumber
  /\ Len(hfReducedCollision) = 1
  /\ Len(hfCandD) = 1
  /\ hEvents[Processed] = 1

(* the permutations of 1..n *)
Perms(n) == { p \in [1..n -> 1..n] : \A i, j \in 1..n : i # j => p[i] # p[j] }

(* the rows a table has for a collision, as a set *)
RowSetOf(table, collId) == { table[k] : k \in RowsOf(table, collId) }

(* the tables runDataCreation writes for the collision handled last when   *)
(* its D candidates come in the order p                                    *)
RowsInOrder(p) ==
  loopD(doprocess, [i \in 1..Len(collision.candsD) |-> collision.candsD[p[i]]],
        collision.V0s, 1, lastIndex(hfReducedCollision), deltaMassK0s,
        [selectedV0s |-> {}, hfCandV0 |-> <<>>, hfCandD |-> <<>>,
         fillHfReducedCollision |-> FALSE])

(* C16: all D candidates of a collision that share no daughter with a V0   *)
(* get the same bitmask for it, which is the bitmask of the row stored for *)
(* the V0; and the rows written to the reduced-V0 table and to the         *)
(* reduced-D table for the collision are the same, as sets and in number,  *)
(* for every order of the D candidates.                                    *)
C16_DOrderInvariant ==
  JustReduced =>
    /\ \A j \in DOMAIN collision.V0s, i1, i2 \in DOMAIN collision.candsD :
         LET v0 == collision.V0s[j]
             d1 == collision.candsD[i1]
             d2 == collision.candsD[i2]
         IN  (~SharesTrack(d1, v0) /\ ~SharesTrack(d2, v0)) =>
               /\ isSelectedV0(v0, prongIdsOf(d1), deltaMassK0s)
                    = isSelectedV0(v0, prongIdsOf(d2), deltaMassK0s)
               /\ \A k \in RowsOfV0(v0) :
                    hfCandV0[k].v0Type = isSelectedV0(v0, prongIdsOf(d1), deltaMassK0s)
    /\ \A p \in Perms(Len(collision.candsD)) :
         LET r == RowsInOrder(p)
         IN  /\ { r.hfCandV0[k] : k \in DOMAIN r.hfCandV0 }
                  = RowSetOf(hfCandV0, collision.globalIndex)
             /\ { r.hfCandD[k] : k \in DOMAIN r.hfCandD }
                  = RowSetOf(hfCandD, collision.globalIndex)
             /\ Len(r.hfCandV0) = Cardinality(RowsOf(hfCandV0, collision.globalIndex))
             /\ Len(r.hfCandD) = Cardinality(RowsOf(hfCandD, collision.globalIndex))

(* C16 witness: of three D candidates the first shares a track with the    *)
(* V0 and the two others store it, with more than one bit, and are written *)
C16_Witness ==
  /\ JustReduced
  /\ Len(collision.candsD) = 3
  /\ Len(collision.V0s) = 1
  /\ SharesTrack(collision.candsD[1], collision.V0s[1])
  /\ ~SharesTrack(collision.candsD[2], collision.V0s[1])
  /\ ~SharesTrack(collision.candsD[3], collision.V0s[1])
  /\ Len(hfCandV0) = 1
  /\ hfCandV0[1].v0Type = 7
  /\ Len(hfCandD) = 2

----------------------------------------------------------------------------
(* Properties of the candidate-creation stage.                             *)
(* The reduced collisions 0 .. nGrouped-1 have been handed to the process  *)
(* function of the enabled channel.                                        *)
JustCreated == pc \in {"create", "done"} /\ nGrouped > 0

(* resonance rows that combine D row d and V0 row v (row numbers from 0) *)
ResoOf(d, v) ==
  { k \in DOMAIN rowCandidateReso :
      rowCandidateReso[k].dRow = d /\ rowCandidateReso[k].v0Row = v }

(* both mass windows of the channel hold for D row d and V0 row v *)
InWindows(d, v) ==
  /\ isDSelected(doprocess2, hfCandD[d + 1], invMassWindowD)
  /\ isV0Selected(doprocess2, hfCandV0[v + 1], hfCandD[d + 1], invMassWindowV0)

(* the hypothesis whose mass the channel looks at for D row d *)
HypothesisOf(d) ==
  IF doprocess2 = "XctoDplusLambda"
  THEN IF hfCandD[d + 1].dType > 0 THEN Lambda ELSE AntiLambda
  ELSE K0s

(* C4: for every reduced collision handed to the channel, every reduced-D  *)
(* row and every reduced-V0 row of that collision give exactly one         *)
(* resonance row if both mass windows hold and no row otherwise, whatever  *)
(* the stored bitmask.  Stated for the V0 rows whose bitmask has the bit   *)
(* of the hypothesis the channel looks at, with any other bits set or not. *)
C4_OneRowPerPairInWindows ==
  JustCreated =>
    \A d \in 0..(Len(hfCandD) - 1), v \in 0..(Len(hfCandV0) - 1) :
      ( /\ hfCandD[d + 1].hfRedCollisionId < nGrouped
        /\ hfCandV0[v + 1].hfRedCollisionId = hfCandD[d + 1].hfRedCollisionId
        /\ TESTBIT(hfCandV0[v + 1].v0Type, HypothesisOf(d)) )
      => Cardinality(ResoOf(d, v)) = IF InWindows(d, v) THEN 1 ELSE 0

(* C5: every resonance row references a reduced collision that exists, and *)
(* the D row and the V0 row it combines both carry that collision as       *)
(* their foreign key.                                                      *)
C5_PairsWithinCollision ==
  \A k \in DOMAIN rowCandidateReso :
    LET r == rowCandidateReso[k]
    IN  /\ r.hfRedCollisionId \in 0..(Len(hfReducedCollision) - 1)
        /\ r.hfRedCollisionId < nGrouped
        /\ hfCandD[r.dRow + 1].hfRedCollisionId = r.hfRedCollisionId
        /\ hfCandV0[r.v0Row + 1].hfRedCollisionId = r.hfRedCollisionId

(* C5 witness: two reduced collisions, each with a V0 of the partition,    *)
(* and resonance rows for both.                                            *)
C5_Witness ==
  /\ pc = "done"
  /\ Len(hfReducedCollision) = 2
  /\ \E k \in DOMAIN rowCandidateReso : rowCandidateReso[k].hfRedCollisionId = 0
  /\ \E k \in DOMAIN rowCandidateReso : rowCandidateReso[k].hfRedCollisionId = 1
  /\ \E i, j \in DOMAIN hfCandV0 :
       /\ hfCandV0[i].hfRedCollisionId = 0
       /\ hfCandV0[j].hfRedCollisionId = 1
       /\ hfCandV0[i].v0Type = hfCandV0[j].v0Type

(* C10: the funnel counts never increase from one bin to the next, and the *)
(* last bin counts each selected D candidate that has a selected V0 once:  *)
(* with QA enabled it equals the number of D rows that occur in resonance  *)
(* rows; with QA disabled nothing is counted.                              *)
C10_FunnelMonotone ==
  /\ hSelections[NoSel] >= hSelections[DSel]
  /\ hSelections[DSel] >= hSelections[V0Sel]
  /\ hSelections[V0Sel]
       = IF activateQA
         THEN Cardinality({ rowCandidateReso[k].dRow : k \in DOMAIN rowCandidateReso })
         ELSE 0

(* C10 witness: QA enabled, a D candidate rejected by its mass window and  *)
(* a D candidate paired with two V0s.                                      *)
C10_Witness ==
  /\ activateQA
  /\ hSelections[NoSel] > hSelections[DSel]
  /\ hSelections[V0Sel] > 0
  /\ \E k, l \in DOMAIN rowCandidateReso :
       k # l /\ rowCandidateReso[k].dRow = rowCandidateReso[l].dRow

(* C12: every resonance row combines its D row with a V0 row whose stored  *)
(* bitmask has the bit of the hypothesis whose mass the channel compared   *)
(* with its window and recorded: the K-short bit in the two K-short        *)
(* channels, and in the cascade channel the Lambda bit for a D row of      *)
(* positive type and the anti-Lambda bit for one of negative type.         *)
C12_HypothesisBitOfRow ==
  \A k \in DOMAIN rowCandidateReso :
    LET r == rowCandidateReso[k]
    IN  /\ TESTBIT(hfCandV0[r.v0Row + 1].v0Type, HypothesisOf(r.dRow))
        /\ r.invMassV0 = invMassV0Of(doprocess2, hfCandV0[r.v0Row + 1], hfCandD[r.dRow + 1])

(* the nominal mass difference M(Dstar) - M(D0), with M(D0) = 1.86484 *)
NominalMassDifference == MassDStar - 1864840

(* C13: in the channel of the D* candidates, a D row whose stored mass is  *)
(* the nominal mass difference M(Dstar) - M(D0) passes the selection on the   *)
(* D mass whatever the window, so that it gives a resonance row with every *)
(* V0 row of the K-short partition of its collision that is inside the V0  *)
(* window.                                                                 *)
C13_DstarNominalPasses ==
  (JustCreated /\ doprocess2 = "Ds1toDstarK0s") =>
    \A d \in 0..(Len(hfCandD) - 1) :
      ( /\ hfCandD[d + 1].hfRedCollisionId < nGrouped
        /\ hfCandD[d + 1].invMass = NominalMassDifference )
      => /\ isDSelected(doprocess2, hfCandD[d + 1], invMassWindowD)
         /\ \A v \in 0..(Len(hfCandV0) - 1) :
              ( /\ hfCandV0[v + 1].hfRedCollisionId = hfCandD[d + 1].hfRedCollisionId
                /\ hfCandV0[v + 1].v0Type \in {1, 3, 5}
                /\ isV0Selected(doprocess2, hfCandV0[v + 1], hfCandD[d + 1], invMassWindowV0) )
              => ResoOf(d, v) # {}

============================================================================
